---- MODULE Spec2Model ----
(***************************************************************************)
(* tartex: the dependency-resolution and caching core.                     *)
(*                                                                         *)
(* One behaviour is one tartex invocation (TarTeX.__init__ followed by      *)
(* TarTeX.tar_files) over a project directory, a git repository and a      *)
(* cache manifest, after the edits the user made to the project.  The      *)
(* project starts without a manifest, or with one a cache-assisted         *)
(* invocation left for it.                                                 *)
(*                                                                         *)
(* Files are named by records [stem, ext]; a path adds the directory:      *)
(* dir = "." is a path relative to the main document's directory (the      *)
(* working directory during resolution), "src" is that directory given     *)
(* absolutely (main_file is Path.resolve()d), "tmp" is the temporary       *)
(* compile directory and any other dir is a TeX system directory.          *)
(***************************************************************************)
EXTENDS Integers, FiniteSets, Sequences, TLC

\* ------------------------------------------------------------------ bounds
\* Edits the user makes before the invocation.
MaxEdits == 1
\* Times the bytes of one file are changed.
MaxVer == 1
\* Options on the command line, a .fls given as the document counted as one.
MaxOptions == 2

\* ------------------------------------------------------------ names, paths
N(stem, ext) == [stem |-> stem, ext |-> ext]
P(dir, n) == [dir |-> dir, stem |-> n.stem, ext |-> n.ext]
Rel(n) == P(".", n)
SrcAbs(n) == P("src", n)
NameOf(p) == N(p.stem, p.ext)
IsAbsolute(p) == p.dir # "."
WithSuffix(x, e) == [x EXCEPT !.ext = e]

MainTex == N("main", "tex")
MainFls == N("main", "fls")
MainBbl == N("main", "bbl")
MainInd == N("main", "ind")
MainPdf == N("main", "pdf")
FigPng == N("fig", "png")
RefsBib == N("refs", "bib")

\* The project directory of the model: every file name that can exist in it.
ProjectNames == {MainTex, MainFls, MainBbl, MainInd, MainPdf, FigPng, RefsBib}

AUXFILES ==
  {"aux", "bcf", "fls", "idx", "lof", "lot", "out", "toc", "blg", "ilg", "log",
   "xdv", "fdb_latexmk"}

SUPP_REQ == {"bbl", "ind"}

pkglist_name == N("TeXPackages", "json")

\* fnmatch.fnmatch(name, pattern) and Path.glob("**/pattern") for the patterns
\* of the model, each a record [stem, ext] where "*" matches anything.
Fnmatch(n, pat) ==
  /\ pat.stem = "*" \/ pat.stem = n.stem
  /\ pat.ext = "*" \/ pat.ext = n.ext

Glob(files, pat) == {Rel(n) : n \in {m \in files : Fnmatch(m, pat)}}

\* hashlib.sha256(bytes).hexdigest(): injective on the contents of the model.
Sha256(bytes) == <<"sha256", bytes>>

\* ------------------------------------------------------------------- state
VARIABLES
  disk,        \* names of the files present in the project directory
  ver,         \* contents (a version number) of each editable file
  cache,       \* the cache manifest file: a record whose kind says what is there
  archive,     \* whether a file exists at the target archive path
  entries,     \* what each archive file holds
  resolution,  \* how the name conflict of this invocation was settled
  head,        \* git HEAD: [ref: branch name or "HEAD", commit]
  pc,          \* position of the current invocation in tar_files
  args,        \* self.args of the current invocation
  main_file,   \* self.main_file (a name in the project directory)
  excl_files,  \* self.excl_files
  gitctx,      \* the _git_cntxt generator: [state, checked_out, restore_ref]
  tarball,     \* the Tarballer being filled: [files, streams, mtime, bytes]
  chk,         \* check_files' result: [ref, tgt, err]
  exc,         \* exception raised inside the current with-block, or "none"
  exit_code,   \* exit code of the last finished invocation
  strategy,    \* the input_files_from_* branch input_files took last
  did,         \* what the last step did (the events it logs)
  tar_file,    \* self.tar_file_w_ext, the target archive path
  build,       \* the last run of latexmk in this invocation, if any
  fresh,       \* a cache-assisted resolution wrote or validated the manifest
               \* and no file it lists was modified since
  edits        \* user edits so far

vars ==
  <<disk, ver, cache, archive, entries, resolution, head, pc, args, main_file,
    excl_files, gitctx, tarball, chk, exc, exit_code, strategy, did, tar_file,
    build, fresh, edits>>


\* --------------------------------------------------------------- Tarballer
\* Tarballer.__init__: no files, no streams, mtime of the main file. Of the
\* contents of the streams, bytes keeps the package list's.
NewTarballer ==
  [files |-> {}, streams |-> {}, mtime |-> "main_file", bytes |-> <<>>]

set_mtime(t, m) == [t EXCEPT !.mtime = m]

app_files(t, fs) == [t EXCEPT !.files = @ \cup fs]

drop_files(t, fs) == [t EXCEPT !.files = @ \ fs]

app_stream(t, name) == [t EXCEPT !.streams = @ \cup {name}]

\* Tarballer.objects: the files and Path(name) of every stream.
objects(t) == t.files \cup {Rel(s) : s \in t.streams}

\* ------------------------------------------------------------ file system
\* Path.is_file / Path.exists / open() of a path of the project, resolved
\* against the working directory (the main document's directory).
is_file(p) == p.dir \in {".", "src"} /\ NameOf(p) \in disk

\* os.stat(p).st_mtime: when the file was last written in the project
\* directory, by the user or by a checkout; never the time of a commit.
st_mtime(p) == <<"st_mtime", NameOf(p)>>

\* The bytes of a file: editable files carry their version.
read_bytes(n) == <<n, IF n \in DOMAIN ver THEN ver[n] ELSE 0>>

\* ---------------------------------------------------------- BuildLogParser
Line(tag, p) == [tag |-> tag, path |-> p]

\* A parse that keeps every relative path, whatever its suffix.
fls_input_files_any_suffix(lines, skip_files, sty_files) ==
  LET inputs == {l.path : l \in {k \in lines : k.tag = "INPUT"}}
  IN [deps |-> {p \in inputs : ~IsAbsolute(p)},
      pkgs |-> [System |-> {}, Local |-> {}]]

\* _latex.fls_input_files
fls_input_files(lines, skip_files, sty_files) ==
  LET inputs == {l.path : l \in {k \in lines : k.tag = "INPUT"}}
      sty == {p \in inputs : p.ext \in {"cls", "def", "sty"}}
      fonts == {p \in inputs : p.ext \in {"pfb", "tfm"} /\ p.ext \notin {"cls", "def", "sty"}}
  IN [deps |-> {p \in inputs : ~IsAbsolute(p) /\ p.ext \notin skip_files},
      pkgs |->
        [System |->
           IF sty_files
             THEN {p.dir : p \in {q \in sty : IsAbsolute(q) /\ q.dir # "base"}}
                    \cup {p.dir : p \in {q \in fonts : IsAbsolute(q)}}
             ELSE {},
         Local |->
           IF sty_files THEN {NameOf(p) : p \in {q \in sty : ~IsAbsolute(q)}}
           ELSE {}]]

\* The .fls file kept in the project directory by an earlier in-tree build.
SrcFlsLines ==
  {Line("PWD", P("src", N("", ""))),
   Line("INPUT", Rel(MainTex)),
   Line("INPUT", P("base", N("article", "cls"))),
   Line("INPUT", P("amsmath", N("amsmath", "sty"))),
   Line("INPUT", Rel(FigPng)),
   Line("INPUT", Rel(N("main", "aux"))),
   Line("INPUT", Rel(MainBbl)),
   Line("OUTPUT", Rel(N("main", "log"))),
   Line("OUTPUT", Rel(MainPdf))}

\* ------------------------------------------------------ external build tool
\* One run of latexmk: how it ended, the files it left in the compile
\* directory, and whether the engine read main.bbl from the project directory.
FailedBuilds ==
  {[outcome |-> o, tmp |-> {}, relsupp |-> FALSE] :
     o \in {"missing", "nonzero", "timeout"}}

OkBuilds ==
  {b \in [outcome : {"ok"}, tmp : SUBSET {MainBbl, MainInd, MainPdf},
          relsupp : BOOLEAN] :
     /\ MainTex \in disk
     /\ MainPdf \in b.tmp
     /\ b.relsupp => MainBbl \in disk}

NoBuild == [outcome |-> "none", tmp |-> {}, relsupp |-> FALSE]

\* The runs of latexmk an invocation can meet: a failure, or the products
\* the project compiles to (the same at every run of one invocation).
Builds == FailedBuilds \cup (IF build.outcome = "ok" THEN {build} ELSE OkBuilds)

\* The .fls latexmk writes into the compile directory.
CompileFls(b) ==
  {Line("PWD", P("src", N("", ""))),
   Line("INPUT", Rel(MainTex)),
   Line("INPUT", P("base", N("article", "cls"))),
   Line("INPUT", P("amsmath", N("amsmath", "sty"))),
   Line("INPUT", P("tmp", N("main", "aux"))),
   Line("OUTPUT", P("tmp", N("main", "log")))}
    \cup (IF FigPng \in disk THEN {Line("INPUT", Rel(FigPng))} ELSE {})
    \cup (IF b.relsupp THEN {Line("INPUT", Rel(MainBbl))} ELSE {})
    \cup {Line("INPUT", P("tmp", n)) : n \in b.tmp \ {MainPdf}}
    \cup {Line("OUTPUT", P("tmp", n)) : n \in b.tmp}

\* A run_latexmk that does not look at latexmk's exit status.
run_latexmk_unchecked(b) ==
  IF b.outcome \in {"ok", "nonzero"} THEN "fls_path" ELSE "LatexmkError"

\* _latex.run_latexmk: the path of the .fls, or LatexmkError.
run_latexmk(b) == IF b.outcome = "ok" THEN "fls_path" ELSE "LatexmkError"

\* -------------------------------------------------------- ContentHashCache
EmptyPkgs == [System |-> {}, Local |-> {}]

\* The manifest file: kind is "absent" (no file), "corrupt" (not JSON),
\* "nokeys" (JSON without the three keys) or "json" (a manifest).
NoManifest(kind) ==
  [kind |-> kind, input_files |-> <<>>, streams |-> {}, packages |-> EmptyPkgs]

\* A save that hashes each file as it was first found, not its current bytes.
save_input_files_hash_stale(files, streams, packages) ==
  [kind |-> "json",
   input_files |-> [p \in {f \in files : is_file(f)} |-> Sha256(<<NameOf(p), 0>>)],
   streams |-> streams,
   packages |-> packages]

\* A save that records a file it cannot open with the hash of no bytes.
save_input_files_hash_all(files, streams, packages) ==
  [kind |-> "json",
   input_files |->
     [p \in files |->
        IF is_file(p) THEN Sha256(read_bytes(NameOf(p))) ELSE Sha256(<<>>)],
   streams |-> streams,
   packages |-> packages]

\* hash_utils.save_input_files_hash: the JSON written to the manifest. A file
\* that cannot be opened is left out of the hash dictionary.
save_input_files_hash(files, streams, packages) ==
  [kind |-> "json",
   input_files |->
     [p \in {f \in files : is_file(f)} |-> Sha256(read_bytes(NameOf(p)))],
   streams |-> streams,
   packages |-> packages]

\* A validation that also wants every recorded stream to be a file of the
\* project directory.
check_file_hash_strict(c) ==
  IF c.kind \in {"absent", "corrupt"} THEN "invalid"
  ELSE IF c.kind = "nokeys" THEN "KeyError"
  ELSE IF /\ \A p \in DOMAIN c.input_files :
               is_file(p) /\ c.input_files[p] = Sha256(read_bytes(NameOf(p)))
          /\ \A n \in c.streams : is_file(Rel(n))
         THEN "valid"
         ELSE "invalid"

\* A validation that takes a .bbl / .ind among the recorded streams as a
\* reason to recompile.
check_file_hash_supp(c) ==
  IF c.kind \in {"absent", "corrupt"} THEN "invalid"
  ELSE IF c.kind = "nokeys" THEN "KeyError"
  ELSE IF /\ \A p \in DOMAIN c.input_files :
               is_file(p) /\ c.input_files[p] = Sha256(read_bytes(NameOf(p)))
          /\ \A n \in c.streams : n.ext \notin SUPP_REQ
         THEN "valid"
         ELSE "invalid"

\* hash_utils.check_file_hash: "valid", "invalid", or the KeyError it lets
\* escape when the JSON has no "streams" / "input_files" key.
check_file_hash(c) ==
  IF c.kind \in {"absent", "corrupt"} THEN "invalid"
  ELSE IF c.kind = "nokeys" THEN "KeyError"
  ELSE IF \A p \in DOMAIN c.input_files :
            is_file(p) /\ c.input_files[p] = Sha256(read_bytes(NameOf(p)))
         THEN "valid"
         ELSE "invalid"


\* --------------------------------------------------- VersionControlSnapshot
Commits == {"c1", "c2"}

\* The one branch of the repository and the commit at its tip.
BranchName == "main"
BranchTip == "c2"

\* git ls-tree -r --name-only: the files tracked at a commit.
Tree(c) == IF c = "c1" THEN {MainTex, RefsBib} ELSE {MainTex, RefsBib, FigPng}

AllTracked == Tree("c1") \cup Tree("c2")

\* git rev-parse <rev>: the commit, or "CalledProcessError".
rev_parse(rev) ==
  IF rev \in Commits THEN rev
  ELSE IF rev = "HEAD" THEN head.commit
  ELSE IF rev = BranchName THEN BranchTip
  ELSE "CalledProcessError"

\* git status --porcelain --untracked-files=no prints something: a tracked
\* file is deleted or differs from the committed bytes (version 0).
Unclean ==
  \E n \in Tree(head.commit) : n \notin disk \/ read_bytes(n) # <<n, 0>>

\* git checkout <commit> refuses to overwrite an untracked file.
CheckoutBlocked(c) == \E n \in Tree(c) \ Tree(head.commit) : n \in disk

\* The project directory after a checkout of commit c.
CheckoutDisk(c) == (disk \ AllTracked) \cup Tree(c)

CheckoutVer == [n \in DOMAIN ver |-> IF n \in AllTracked THEN 0 ELSE ver[n]]

\* GitRev.mtime: git show --no-patch --format=%ct <rev>, the time of the
\* commit the revision names.
GitRev_mtime(rev) == <<"ct", rev_parse(rev)>>

\* GitRev.ls_tree_files
ls_tree_files(rev) ==
  IF rev_parse(rev) \in Commits THEN {Rel(n) : n \in Tree(rev_parse(rev))}
  ELSE {}

\* ------------------------------------------------------- DependencyResolver
\* What one input_files_from_* call returns: the exception it raised (or
\* "none"), the Tarballer and the mutable state it leaves (w: the manifest
\* file and the two options the code rewrites), and the events it logged.
Res(raised, t, w, deps, pkgs, ev) ==
  [raised |-> raised, t |-> t, w |-> w, deps |-> deps, pkgs |-> pkgs, ev |-> ev]

\* TarTeX._missing_supp: non-None (the artifact is to be streamed).
_missing_supp(fpath, tmpdir, deps) ==
  /\ fpath \notin deps
  /\ NameOf(fpath) \in tmpdir
  /\ fpath \notin excl_files

\* TarTeX._add_supplement_streams
_add_supplement_streams(tmpdir, deps, t) ==
  [t EXCEPT !.streams =
     @ \cup {NameOf(f) :
               f \in {g \in {SrcAbs(WithSuffix(main_file, e)) : e \in SUPP_REQ} :
                        _missing_supp(g, tmpdir, deps)}}]

\* TarTeX._add_pdf_stream: the Tarballer and with_pdf it leaves.
_add_pdf_stream(found, t, w) ==
  IF found THEN [t |-> app_stream(t, MainPdf), w |-> w]
  ELSE [t |-> t, w |-> [w EXCEPT !.with_pdf = FALSE]]

\* An input_files_from_recompile that saves the manifest whatever
\* cache_update says.
input_files_from_recompile_saving(t, w, minimal, cache_update, b) ==
  LET Save(parsed, pdf) ==
        Res("none", pdf.t,
            [pdf.w EXCEPT !.cache =
               save_input_files_hash(parsed.deps, pdf.t.streams, parsed.pkgs)],
            parsed.deps, parsed.pkgs,
            IF cache_update THEN {"recompile", "cache_write"} ELSE {"recompile"})
      WithPdf(t2) ==
        IF ~minimal /\ w.with_pdf THEN _add_pdf_stream(MainPdf \in b.tmp, t2, w)
        ELSE [t |-> t2, w |-> w]
      Parsed(parsed) ==
        Save(parsed,
             WithPdf(_add_supplement_streams(
                       b.tmp, parsed.deps,
                       app_files(set_mtime(t, "compile_fls"), parsed.deps))))
  IN IF run_latexmk(b) = "LatexmkError"
       THEN Res("LatexmkError", t, w, {}, EmptyPkgs, {"latexmk_failed"})
       ELSE Parsed(fls_input_files(CompileFls(b), AUXFILES, w.packages))

\* TarTeX.input_files_from_recompile, for the latexmk run b.
input_files_from_recompile(t, w, minimal, cache_update, b) ==
  LET Save(parsed, pdf) ==
        Res("none", pdf.t,
            IF cache_update
              THEN [pdf.w EXCEPT !.cache =
                      save_input_files_hash(parsed.deps, pdf.t.streams, parsed.pkgs)]
              ELSE pdf.w,
            parsed.deps, parsed.pkgs,
            IF cache_update THEN {"recompile", "cache_write"} ELSE {"recompile"})
      WithPdf(t2) ==
        IF ~minimal /\ w.with_pdf THEN _add_pdf_stream(MainPdf \in b.tmp, t2, w)
        ELSE [t |-> t2, w |-> w]
      Parsed(parsed) ==
        Save(parsed,
             WithPdf(_add_supplement_streams(
                       b.tmp, parsed.deps,
                       app_files(set_mtime(t, "compile_fls"), parsed.deps))))
  IN IF run_latexmk(b) = "LatexmkError"
       THEN Res("LatexmkError", t, w, {}, EmptyPkgs, {"latexmk_failed"})
       ELSE Parsed(fls_input_files(CompileFls(b), AUXFILES, w.packages))

\* An input_files_from_srcfls that saves the manifest as the recompile does.
input_files_from_srcfls_saving(t, w) ==
  LET Saved(parsed, t1) ==
        Res("none", t1,
            [w EXCEPT !.cache = save_input_files_hash(parsed.deps, t1.streams, parsed.pkgs)],
            parsed.deps, parsed.pkgs, {"srcfls_read"})
      Parsed(found, parsed) ==
        Saved(parsed,
              app_files(IF found THEN set_mtime(t, "src_fls") ELSE t, parsed.deps))
      Found(found) ==
        Parsed(found,
               IF found THEN fls_input_files(SrcFlsLines, AUXFILES, w.packages)
               ELSE [deps |-> {}, pkgs |-> EmptyPkgs])
  IN Found(is_file(Rel(WithSuffix(main_file, "fls"))))

\* TarTeX.input_files_from_srcfls
input_files_from_srcfls(t, w) ==
  LET Done(parsed, pdf) ==
        Res("none", pdf.t, pdf.w, parsed.deps, parsed.pkgs, {"srcfls_read"})
      WithPdf(t1, w1) ==
        IF w1.with_pdf
          THEN _add_pdf_stream(is_file(Rel(WithSuffix(main_file, "pdf"))), t1, w1)
          ELSE [t |-> t1, w |-> w1]
      Parsed(found, parsed) ==
        Done(parsed,
             WithPdf(app_files(IF found THEN set_mtime(t, "src_fls") ELSE t, parsed.deps),
                     IF ~found /\ w.packages THEN [w EXCEPT !.packages = FALSE] ELSE w))
      Found(found) ==
        Parsed(found,
               IF found THEN fls_input_files(SrcFlsLines, AUXFILES, w.packages)
               ELSE [deps |-> {}, pkgs |-> EmptyPkgs])
  IN Found(is_file(Rel(WithSuffix(main_file, "fls"))))

\* TarTeX.input_files_from_git
input_files_from_git(t, w) ==
  LET Done(deps, found) ==
        Res("none", set_mtime(app_files(t, deps), GitRev_mtime(args.git_rev)),
            IF w.packages /\ ~found THEN [w EXCEPT !.packages = FALSE] ELSE w,
            deps,
            IF w.packages /\ found
              THEN fls_input_files(SrcFlsLines, AUXFILES, w.packages).pkgs
              ELSE EmptyPkgs,
            {"ls_tree"})
  IN Done(ls_tree_files(args.git_rev), is_file(Rel(WithSuffix(main_file, "fls"))))

\* An input_files_from_cache whose fallback recompile does not ask for a
\* cache update.
input_files_from_cache_no_update(t, w, b) ==
  LET Hit(deps, pdf) ==
        Res("none", pdf.t, pdf.w, deps, w.cache.packages, {"cache_read", "cache_hit"})
      WithPdf(t1) ==
        IF w.with_pdf
          THEN _add_pdf_stream(is_file(Rel(WithSuffix(main_file, "pdf"))), t1, w)
          ELSE [t |-> t1, w |-> w]
      Present(deps) == Hit(deps, WithPdf(app_files(t, deps)))
      Missing(listed, streams) ==
        Present(listed \ {d \in listed \cup {Rel(f) : f \in streams} : ~is_file(d)})
      Fallback(r) ==
        [r EXCEPT !.ev = @ \cup (IF w.cache.kind # "absent" THEN {"cache_read"} ELSE {})]
  IN IF w.cache.kind # "absent" /\ check_file_hash(w.cache) = "KeyError"
       THEN Res("KeyError", t, w, {}, EmptyPkgs, {"cache_read"})
     ELSE IF w.cache.kind # "absent" /\ check_file_hash(w.cache) = "valid"
       THEN Missing(DOMAIN w.cache.input_files, w.cache.streams)
     ELSE Fallback(input_files_from_recompile(t, w, FALSE, FALSE, b))

\* TarTeX.input_files_from_cache, for the latexmk run b it may need.
input_files_from_cache(t, w, b) ==
  LET Hit(deps, pdf) ==
        Res("none", pdf.t, pdf.w, deps, w.cache.packages, {"cache_read", "cache_hit"})
      WithPdf(t1) ==
        IF w.with_pdf
          THEN _add_pdf_stream(is_file(Rel(WithSuffix(main_file, "pdf"))), t1, w)
          ELSE [t |-> t1, w |-> w]
      Present(deps) == Hit(deps, WithPdf(app_files(t, deps)))
      Missing(listed, streams) ==
        Present(listed \ {d \in listed \cup {Rel(f) : f \in streams} : ~is_file(d)})
      Fallback(r) ==
        [r EXCEPT !.ev = @ \cup (IF w.cache.kind # "absent" THEN {"cache_read"} ELSE {})]
  IN IF w.cache.kind # "absent" /\ check_file_hash(w.cache) = "KeyError"
       THEN Res("KeyError", t, w, {}, EmptyPkgs, {"cache_read"})
     ELSE IF w.cache.kind # "absent" /\ check_file_hash(w.cache) = "valid"
       THEN Missing(DOMAIN w.cache.input_files, w.cache.streams)
     ELSE Fallback(input_files_from_recompile(t, w, FALSE, TRUE, b))

\* An if / elif chain that looks at --force-recompile first.
select_strategy_force_first ==
  IF args.force_recompile THEN "forced"
  ELSE IF args.git_rev # "" THEN "git"
  ELSE IF main_file.ext = "fls" THEN "srcfls"
  ELSE "cache"

\* The branch of input_files' if / elif chain that is taken.
select_strategy ==
  IF args.git_rev # "" THEN "git"
  ELSE IF main_file.ext = "fls" /\ ~args.force_recompile THEN "srcfls"
  ELSE IF args.force_recompile THEN "forced"
  ELSE "cache"

\* A line of the main document, as bib_file's two regular expressions see
\* it: the macro it begins with ("none" for any other line) and the
\* macro's argument.
TexLine(macro, arg) == [macro |-> macro, arg |-> arg]

\* bib_name / bst_name before any match.
None == "None"

\* tex_utils.bib_file, the loop over the lines from line i on, with the
\* matches bib_name and bst_name found so far: a matching line assigns its
\* match and continues; any other line breaks once both are set.
RECURSIVE bib_scan(_, _, _, _)
bib_scan(lines, i, bib_name, bst_name) ==
  IF i > Len(lines) THEN [bib |-> bib_name, bst |-> bst_name]
  ELSE IF lines[i].macro = "bibliography"
    THEN bib_scan(lines, i + 1, lines[i].arg, bst_name)
  ELSE IF lines[i].macro = "bibliographystyle"
    THEN bib_scan(lines, i + 1, bib_name, lines[i].arg)
  ELSE IF bib_name # None /\ bst_name # None
    THEN [bib |-> bib_name, bst |-> bst_name]
  ELSE bib_scan(lines, i + 1, bib_name, bst_name)

\* tex_utils.bib_file: the .bib and .bst named by the matches, ".bib" /
\* ".bst" appended, those that are files.
bib_file(lines) ==
  LET found == bib_scan(lines, 1, None, None)
  IN {f \in (IF found.bib # None THEN {Rel(N(found.bib, "bib"))} ELSE {})
              \cup (IF found.bst # None THEN {Rel(N(found.bst, "bst"))} ELSE {}) :
        is_file(f)}

\* The lines of main.tex in the project of the model.
MainTexLines ==
  <<TexLine("none", ""), TexLine("bibliographystyle", "plain"),
    TexLine("none", ""), TexLine("bibliography", "refs"), TexLine("none", "")>>

\* TarTeX._add_bib: the .bib / .bst files main.tex names that are files.
_add_bib == bib_file(MainTexLines)

\* TarTeX._add_user_files
_add_user_files == UNION {Glob(disk, pat) : pat \in args.add}

\* TarTeX.input_files, for the latexmk run b it may need. The result also
\* says which strategy ran.
input_files(t, w, b) ==
  LET Done(r, s, t4) ==
        [raised |-> r.raised,
         t |-> IF r.raised = "none" THEN t4 ELSE r.t,
         w |-> r.w, deps |-> r.deps, pkgs |-> r.pkgs,
         ev |-> r.ev, strategy |-> s]
      Pkgs(r, t3) ==
        IF r.w.packages
          THEN [app_stream(t3, pkglist_name) EXCEPT !.bytes = pkglist_name :> r.pkgs]
          ELSE t3
      Excl(t2) == IF excl_files # {} THEN drop_files(t2, excl_files) ELSE t2
      Add(t1) == IF args.add # {} THEN app_files(t1, _add_user_files) ELSE t1
      Bib(t0) == IF args.bib THEN app_files(t0, _add_bib) ELSE t0
      Post(r, s) == Done(r, s, Pkgs(r, Excl(Add(Bib(r.t)))))
      Run(s) ==
        Post(CASE s = "git" -> input_files_from_git(t, w)
               [] s = "srcfls" -> input_files_from_srcfls(t, w)
               [] s = "forced" -> input_files_from_recompile(t, w, FALSE, FALSE, b)
               [] OTHER -> input_files_from_cache(t, w, b),
             s)
  IN Run(select_strategy)

\* input_files runs latexmk: a forced recompile, or no usable manifest.
NeedsBuild(w) ==
  \/ select_strategy = "forced"
  \/ select_strategy = "cache"
       /\ (w.cache.kind = "absent" \/ check_file_hash(w.cache) = "invalid")

\* The latexmk runs input_files can meet.
BuildsFor(w) ==
  IF NeedsBuild(w) THEN Builds ELSE {NoBuild}

\* ------------------------------------------------------- ConsistencyChecker
\* A comparison that only looks for reference files missing from disk.
_check_err_missing_lenient(ref, tgt, supp_files) ==
  LET non_exist_files == {f \in objects(ref) : ~is_file(f)} \ supp_files
  IN non_exist_files # {}

\* A comparison that also counts what the target has beyond the reference.
_check_err_missing_extra(ref, tgt, supp_files) ==
  LET non_exist_files == {f \in objects(ref) : ~is_file(f)} \ supp_files
      excluded == (objects(ref) \ objects(tgt)) \ (non_exist_files \cup supp_files)
  IN non_exist_files # {} \/ excluded # {} \/ objects(tgt) \ objects(ref) # {}

\* tartex._check_err_missing
_check_err_missing(ref, tgt, supp_files) ==
  LET non_exist_files == {f \in objects(ref) : ~is_file(f)} \ supp_files
      excluded == (objects(ref) \ objects(tgt)) \ (non_exist_files \cup supp_files)
  IN non_exist_files # {} \/ excluded # {}

\* TarTeX.check_files, for the latexmk runs b1 (the reference recompile) and
\* b2 (the one the target resolution may need).
check_files(w, b1, b2) ==
  LET Verdict(ref, tgt, chk_err) ==
        [raised |-> IF chk_err THEN "CheckFailError" ELSE "none",
         w |-> tgt.w, ev |-> ref.ev \cup tgt.ev, strategy |-> tgt.strategy,
         tgt_raised |-> "none",
         result |-> [ref |-> objects(ref.t), tgt |-> objects(tgt.t), err |-> chk_err]]
      missing_supp(ref) ==
        (IF args.force_recompile
           THEN {Rel(WithSuffix(main_file, e)) : e \in SUPP_REQ}
           ELSE {}) \cap objects(ref.t)
      Target(ref, tgt) ==
        IF tgt.raised # "none"
          THEN [raised |-> tgt.raised, w |-> tgt.w, ev |-> ref.ev \cup tgt.ev,
                strategy |-> tgt.strategy, tgt_raised |-> tgt.raised,
                result |-> [ref |-> objects(ref.t), tgt |-> {}, err |-> TRUE]]
          ELSE Verdict(ref, tgt, _check_err_missing(ref.t, tgt.t, missing_supp(ref)))
      Reference(ref) ==
        IF ref.raised # "none"
          THEN [raised |-> "CheckFailError", w |-> ref.w, ev |-> ref.ev,
                strategy |-> "none", tgt_raised |-> "none",
                result |-> [ref |-> {}, tgt |-> {}, err |-> TRUE]]
          ELSE Target(ref, input_files(NewTarballer, ref.w, b2))
  IN Reference(input_files_from_recompile(NewTarballer, w, TRUE, FALSE, b1))

\* ------------------------------------------------------------ command line
\* The exclusion and inclusion patterns a user may pass with -x and -a.
ExclChoices ==
  {{}, {N("*", "png")}, {N("*", "bbl")}, {N("main", "*")}}

AddChoices == {{}, {N("*", "png")}}

\* parse_args: the options the resolution reads.
ArgSpace ==
  [git_rev : {"", "c1", "c2", "bad"}, force_recompile : BOOLEAN,
   excl : ExclChoices, add : AddChoices, bib : BOOLEAN, packages : BOOLEAN,
   with_pdf : BOOLEAN, check : BOOLEAN, only_check : BOOLEAN, list : BOOLEAN]

\* How far a command line departs from the plain "tartex main.tex": the
\* options it carries, and a .fls given in place of the document.
Options(fname, a) ==
  LET one(b) == IF b THEN 1 ELSE 0
  IN one(fname.ext = "fls") + one(a.git_rev # "") + one(a.force_recompile)
       + one(a.excl # {}) + one(a.add # {}) + one(a.bib) + one(a.packages)
       + one(a.with_pdf) + one(a.check \/ a.only_check) + one(a.list)

\* The command lines of the model: the name given for the document and
\* the options.
CmdLines ==
  {c \in [fname : {N("main", ""), MainTex, MainFls}, a : ArgSpace] :
     Options(c.fname, c.a) <= MaxOptions /\ ~(c.a.check /\ c.a.only_check)}

NoArgs ==
  [git_rev |-> "", force_recompile |-> FALSE, excl |-> {}, add |-> {},
   bib |-> FALSE, packages |-> FALSE, with_pdf |-> FALSE, check |-> FALSE,
   only_check |-> FALSE, list |-> FALSE]

NotFound == N("", "FileNotFoundError")

\* tartex._set_main_file: the main file for the name the user gave, or
\* NotFound where the code raises FileNotFoundError.
_set_main_file(fname) ==
  IF fname.ext \notin {"fls", "tex"}
    THEN IF WithSuffix(fname, "fls") \in disk THEN WithSuffix(fname, "fls")
         ELSE IF WithSuffix(fname, "tex") \in disk THEN WithSuffix(fname, "tex")
         ELSE NotFound
    ELSE IF fname \in disk THEN fname ELSE NotFound

\* TarTeX.__init__, lines 240-273: the files excluded for the patterns excl
\* and the main file m.
ExclFiles(excl, m) ==
  ((UNION {Glob(disk, pat) : pat \in excl}) \ {Rel(WithSuffix(m, "tex"))})
    \cup {f \in {SrcAbs(WithSuffix(m, g)) : g \in SUPP_REQ} :
            \E glb \in excl : Fnmatch(NameOf(f), glb)}

DefaultTarget == "main.tar.gz"
OtherTarget == "other.tar.gz"

\* The archive paths of the model, and what a file at one of them holds:
\* nothing (no such file), what the user had put there, or the members
\* do_tar wrote.
Targets == {DefaultTarget, OtherTarget}

NoEntries ==
  [by |-> "nobody", files |-> {}, streams |-> {}, file_mtime |-> <<>>,
   stream_mtime |-> <<>>]

PriorEntries ==
  [by |-> "user", files |-> {}, streams |-> {}, file_mtime |-> <<>>,
   stream_mtime |-> <<>>]

NewGitCtx ==
  [state |-> "new", checked_out |-> FALSE, head_abbrev_ref |-> "",
   head_full_ref |-> "", entry_head |-> [ref |-> "", commit |-> ""]]

NoCheck == [ref |-> {}, tgt |-> {}, err |-> FALSE]

\* No name conflict was met.
NoResolution ==
  [conflict |-> FALSE, overwrite |-> FALSE, key |-> "none", name |-> DefaultTarget]

\* The part of the state one invocation owns.
runlocal ==
  <<pc, args, main_file, excl_files, gitctx, tarball, chk, exc, exit_code,
    strategy, did, tar_file, build, resolution>>

\* The manifest a cache-assisted invocation writes for the project as it
\* is first found: no stream, no package list.
FirstManifest ==
  [kind |-> "json",
   input_files |-> [p \in {Rel(MainTex), Rel(FigPng)} |-> Sha256(<<NameOf(p), 0>>)],
   streams |-> {},
   packages |-> EmptyPkgs]

\* The manifest a cache-assisted invocation writes when the recompile it
\* fell back to left a main.bbl that the project directory does not have.
SuppManifest == [FirstManifest EXCEPT !.streams = {MainBbl}]

Init ==
  /\ disk = {MainTex, RefsBib, FigPng, MainFls, MainPdf}
  /\ ver = [n \in {MainTex, FigPng} |-> 0]
  /\ cache \in {NoManifest("absent"), FirstManifest, SuppManifest}
  /\ archive = {}
  /\ entries = [n \in Targets |-> NoEntries]
  /\ resolution = NoResolution
  /\ head = [ref |-> BranchName, commit |-> BranchTip]
  /\ pc = "idle"
  /\ args = NoArgs
  /\ main_file = MainTex
  /\ excl_files = {}
  /\ gitctx = NewGitCtx
  /\ tarball = NewTarballer
  /\ chk = NoCheck
  /\ exc = "none"
  /\ exit_code = 0
  /\ strategy = "none"
  /\ did = {}
  /\ tar_file = DefaultTarget
  /\ build = NoBuild
  /\ fresh = (cache.kind = "json")
  /\ edits = 0

Idle == pc = "idle"

\* ------------------------------------------------------------- user edits
\* The user changes the bytes of a project file.
EditFile(n) ==
  /\ Idle /\ edits < MaxEdits
  /\ n \in disk /\ ver[n] < MaxVer
  /\ ver' = [ver EXCEPT ![n] = @ + 1]
  /\ edits' = edits + 1
  /\ fresh' = (fresh /\ Rel(n) \notin DOMAIN cache.input_files)
  /\ UNCHANGED runlocal
  /\ UNCHANGED <<disk, cache, archive, entries, head>>

\* The user deletes or creates a project file.
ToggleFile(n) ==
  /\ Idle /\ edits < MaxEdits
  /\ disk' = IF n \in disk THEN disk \ {n} ELSE disk \cup {n}
  /\ edits' = edits + 1
  /\ fresh' = (fresh /\ Rel(n) \notin DOMAIN cache.input_files)
  /\ UNCHANGED runlocal
  /\ UNCHANGED <<ver, cache, archive, entries, head>>

\* The user checks out another commit, or the branch.
GitSwitch(h) ==
  /\ Idle /\ edits < MaxEdits
  /\ h # head /\ ~Unclean /\ ~CheckoutBlocked(h.commit)
  /\ head' = h
  /\ disk' = CheckoutDisk(h.commit)
  /\ ver' = CheckoutVer
  /\ edits' = edits + 1
  /\ fresh' = (fresh /\ disk' = disk /\ ver' = ver)
  /\ UNCHANGED runlocal
  /\ UNCHANGED <<cache, archive, entries>>

\* A file with the default name of the archive is already there, alone or
\* beside a file with the other name.
PriorArchive(ns) ==
  /\ Idle /\ edits < MaxEdits
  /\ DefaultTarget \notin archive
  /\ archive' = archive \cup ns
  /\ entries' = [n \in Targets |-> IF n \in ns THEN PriorEntries ELSE entries[n]]
  /\ edits' = edits + 1
  /\ UNCHANGED runlocal
  /\ UNCHANGED <<disk, ver, cache, head, fresh>>

\* The manifest file is damaged: its bytes are no longer JSON ("corrupt"),
\* or they are JSON without the keys of a manifest ("nokeys").
CorruptManifest(kind) ==
  /\ Idle /\ edits < MaxEdits
  /\ cache.kind = "json"
  /\ cache' = NoManifest(kind)
  /\ edits' = edits + 1
  /\ fresh' = FALSE
  /\ UNCHANGED runlocal
  /\ UNCHANGED <<disk, ver, archive, entries, head>>

HeadStates ==
  {[ref |-> BranchName, commit |-> BranchTip]}
    \cup {[ref |-> "HEAD", commit |-> c] : c \in Commits}


\* ------------------------------------------------------------ an invocation
\* The mutable state the resolution functions thread through.
World == [cache |-> cache, with_pdf |-> args.with_pdf, packages |-> args.packages]

StoreWorld(w) ==
  /\ cache' = w.cache
  /\ args' = [args EXCEPT !.with_pdf = w.with_pdf, !.packages = w.packages]

\* TarTeX.__init__ for the command line (fname, a). A missing main file or
\* a revision git cannot show ends the process with exit code 1.
Start(fname, a) ==
  /\ pc = "idle"
  /\ LET m == _set_main_file(fname)
         ok == m # NotFound /\ (a.git_rev # "" => rev_parse(a.git_rev) \in Commits)
     IN /\ pc' = IF ok THEN "init" ELSE "exited"
        /\ exit_code' = IF ok THEN 0 ELSE 1
        /\ main_file' = IF m # NotFound THEN m ELSE MainTex
        /\ args' = a
        /\ excl_files' = IF ok THEN ExclFiles(a.excl, m) ELSE {}
  /\ gitctx' = NewGitCtx
  /\ tarball' = NewTarballer
  /\ chk' = NoCheck
  /\ exc' = "none"
  /\ strategy' = "none"
  /\ did' = {}
  /\ tar_file' = DefaultTarget
  /\ build' = NoBuild
  /\ resolution' = NoResolution
  /\ UNCHANGED <<disk, ver, cache, archive, entries, head, fresh, edits>>

\* A git_checkout that does not look at git status first.
git_checkout_unchecked(rev) ==
  LET same == [raised |-> "none", head |-> head, disk |-> disk, ver |-> ver,
               ctx |-> gitctx]
      rev_full_ref == rev_parse(rev)
      recorded == [gitctx EXCEPT !.head_abbrev_ref = head.ref,
                                 !.head_full_ref = head.commit,
                                 !.entry_head = head]
  IN IF rev_full_ref = "CalledProcessError"
       THEN [same EXCEPT !.raised = "CalledProcessError", !.ctx.state = "done"]
     ELSE IF head.commit # rev_full_ref
       THEN IF CheckoutBlocked(rev_full_ref)
              THEN [same EXCEPT !.raised = "CalledProcessError",
                                !.ctx = [recorded EXCEPT !.state = "done"]]
              ELSE [raised |-> "none",
                    head |-> [ref |-> "HEAD", commit |-> rev_full_ref],
                    disk |-> CheckoutDisk(rev_full_ref),
                    ver |-> CheckoutVer,
                    ctx |-> [recorded EXCEPT !.state = "active",
                                             !.checked_out = TRUE]]
     ELSE [same EXCEPT !.ctx = [recorded EXCEPT !.state = "active"]]

\* _git_rev.git_checkout(rev) up to its yield: the exception it raises or
\* "none", and the repository it leaves.
git_checkout(rev) ==
  LET same == [raised |-> "none", head |-> head, disk |-> disk, ver |-> ver,
               ctx |-> gitctx]
      rev_full_ref == rev_parse(rev)
      recorded == [gitctx EXCEPT !.head_abbrev_ref = head.ref,
                                 !.head_full_ref = head.commit,
                                 !.entry_head = head]
  IN IF Unclean
       THEN [same EXCEPT !.raised = "RuntimeError", !.ctx.state = "done"]
     ELSE IF rev_full_ref = "CalledProcessError"
       THEN [same EXCEPT !.raised = "CalledProcessError", !.ctx.state = "done"]
     ELSE IF head.commit # rev_full_ref
       THEN IF CheckoutBlocked(rev_full_ref)
              \* checkout --detach fails; the finally block restores at once
              THEN [same EXCEPT !.raised = "CalledProcessError",
                                !.ctx = [recorded EXCEPT !.state = "done"]]
              ELSE [raised |-> "none",
                    head |-> [ref |-> "HEAD", commit |-> rev_full_ref],
                    disk |-> CheckoutDisk(rev_full_ref),
                    ver |-> CheckoutVer,
                    ctx |-> [recorded EXCEPT !.state = "active",
                                             !.checked_out = TRUE]]
     ELSE [same EXCEPT !.ctx = [recorded EXCEPT !.state = "active"]]

\* Entering _git_cntxt: nullcontext when no revision is given, the
\* git_checkout generator otherwise, which can be entered once.
git_enter ==
  IF args.git_rev = ""
    THEN [raised |-> "none", head |-> head, disk |-> disk, ver |-> ver,
          ctx |-> gitctx]
  ELSE IF gitctx.state # "new"
    THEN [raised |-> "AttributeError", head |-> head, disk |-> disk,
          ver |-> ver, ctx |-> gitctx]
  ELSE git_checkout(args.git_rev)

\* A finally block that always checks out the abbreviated ref.
restore_ref_abbrev == gitctx.head_abbrev_ref

\* The ref git_checkout's finally block checks out.
restore_ref ==
  IF gitctx.head_abbrev_ref = "HEAD" THEN gitctx.head_full_ref
  ELSE gitctx.head_abbrev_ref

\* Leaving the git_checkout context: the finally block of the branch that
\* checked out, nothing otherwise.
git_exit ==
  IF args.git_rev # "" /\ gitctx.state = "active" /\ gitctx.checked_out
    THEN [head |-> [ref |-> IF restore_ref \in Commits THEN "HEAD" ELSE restore_ref,
                    commit |-> rev_parse(restore_ref)],
          disk |-> CheckoutDisk(rev_parse(restore_ref)),
          ver |-> CheckoutVer,
          ctx |-> [gitctx EXCEPT !.state = "done"]]
    ELSE [head |-> head, disk |-> disk, ver |-> ver,
          ctx |-> IF gitctx.state = "active"
                    THEN [gitctx EXCEPT !.state = "done"] ELSE gitctx]

\* tar_files, lines 652-655: entering the two contexts around check_files.
EnterCheck ==
  /\ pc = "init" /\ (args.check \/ args.only_check)
  /\ \E g \in {git_enter} :
        /\ head' = g.head /\ disk' = g.disk /\ ver' = g.ver /\ gitctx' = g.ctx
        /\ exc' = g.raised
        /\ pc' = IF g.raised = "none" THEN "chk_in" ELSE "exited"
        /\ exit_code' = IF g.raised = "none" THEN 0 ELSE 1
        /\ did' = IF g.ctx.checked_out /\ g.raised = "none" THEN {"checkout"} ELSE {}
  /\ UNCHANGED <<cache, archive, entries, resolution, args, main_file,
                 excl_files, tarball, chk, strategy, tar_file, build, fresh,
                 edits>>

\* tar_files, line 656: check_files inside the contexts.
CheckFiles ==
  /\ pc = "chk_in"
  /\ \E b1 \in Builds, b2 \in BuildsFor(World) :
     \E r \in {check_files(World, b1, b2)} :
          /\ b1.outcome = "ok" /\ b2.outcome = "ok" => b1 = b2
          /\ build' = IF b1.outcome = "ok" /\ b2 # NoBuild THEN b2 ELSE b1
          /\ StoreWorld(r.w)
          /\ chk' = r.result
          /\ exc' = r.raised
          /\ strategy' = r.strategy
          /\ did' = r.ev
          /\ fresh' = IF r.strategy = "cache" /\ r.tgt_raised = "none"
                        THEN TRUE ELSE fresh
  /\ pc' = "chk_out"
  /\ UNCHANGED <<disk, ver, archive, entries, resolution, head, main_file,
                 excl_files, gitctx, tarball, exit_code, tar_file, edits>>

\* A tar_files that goes on to the archive whatever check_files did.
ExitCheck_continue ==
  /\ pc = "chk_out"
  /\ \E g \in {git_exit} :
        /\ head' = g.head /\ disk' = g.disk /\ ver' = g.ver /\ gitctx' = g.ctx
        /\ did' = IF gitctx.checked_out THEN {"restore"} ELSE {}
  /\ pc' = "post_check"
  /\ exit_code' = 0
  /\ UNCHANGED <<cache, archive, entries, resolution, args, main_file,
                 excl_files, tarball, chk, exc, strategy, tar_file, build, fresh,
                 edits>>

\* tar_files, lines 654-663: leaving the contexts after check_files, then
\* sys.exit(1) on an exception and return for --only-check.
ExitCheck ==
  /\ pc = "chk_out"
  /\ \E g \in {git_exit} :
        /\ head' = g.head /\ disk' = g.disk /\ ver' = g.ver /\ gitctx' = g.ctx
        /\ did' = IF gitctx.checked_out THEN {"restore"} ELSE {}
  /\ pc' = IF exc # "none" \/ args.only_check THEN "exited" ELSE "post_check"
  /\ exit_code' = IF exc # "none" THEN 1 ELSE 0
  /\ UNCHANGED <<cache, archive, entries, resolution, args, main_file,
                 excl_files, tarball, chk, exc, strategy, tar_file, build, fresh,
                 edits>>


\* What the user types at tar_name_conflict's prompt: a key and, for "c",
\* the new name.
Answers ==
  {[key |-> k, name |-> DefaultTarget] : k \in {"", "q", "o", "x"}}
    \cup {[key |-> "c", name |-> n] : n \in {DefaultTarget, OtherTarget}}

\* A tar_name_conflict that takes the empty answer for "overwrite".
tar_name_conflict_default_o(tpath, overwrite, ans) ==
  IF overwrite THEN tpath
  ELSE IF ans.key = "q" THEN "SystemExit"
  ELSE IF ans.key = "c"
    THEN IF ans.name = tpath \/ ans.name \in archive THEN "SystemExit"
         ELSE ans.name
  ELSE IF ans.key \in {"", "o"} THEN tpath
  ELSE "SystemExit"

\* tar_utils.tar_name_conflict: the path to write, or "SystemExit".
tar_name_conflict(tpath, overwrite, ans) ==
  IF overwrite THEN tpath
  ELSE IF ans.key \in {"", "q"} THEN "SystemExit"
  ELSE IF ans.key = "c"
    THEN IF ans.name = tpath \/ ans.name \in archive THEN "SystemExit"
         ELSE ans.name
  ELSE IF ans.key = "o" THEN tpath
  ELSE "SystemExit"

Conflict == tar_file \in archive /\ ~args.list

\* No prompt was shown.
NoAnswer == [key |-> "none", name |-> DefaultTarget]

\* tar_files, lines 665-678: resolve a name conflict, create the Tarballer
\* and enter the two contexts.
BeginArchive ==
  /\ \/ pc = "post_check"
     \/ pc = "init" /\ ~args.check /\ ~args.only_check
  /\ \E overwrite \in IF Conflict THEN BOOLEAN ELSE {FALSE} :
     \E ans \in IF Conflict /\ ~overwrite THEN Answers ELSE {NoAnswer} :
     \E t \in {IF Conflict THEN tar_name_conflict(tar_file, overwrite, ans)
               ELSE tar_file},
        g \in {git_enter} :
       /\ resolution' = [conflict |-> Conflict, overwrite |-> overwrite,
                         key |-> ans.key, name |-> ans.name]
       /\ IF t = "SystemExit"
            THEN /\ pc' = "exited" /\ exit_code' = 1
                 /\ did' = {"conflict_quit"}
                 /\ UNCHANGED <<head, disk, ver, gitctx, exc, tar_file>>
            ELSE /\ tar_file' = t
                 /\ head' = g.head /\ disk' = g.disk /\ ver' = g.ver
                 /\ gitctx' = g.ctx
                 /\ exc' = g.raised
                 /\ pc' = IF g.raised = "none" THEN "main_in" ELSE "exited"
                 /\ exit_code' = IF g.raised = "none" THEN 0 ELSE 1
                 /\ did' = IF g.ctx.checked_out /\ g.raised = "none"
                             THEN {"checkout"} ELSE {}
  /\ tarball' = NewTarballer
  /\ UNCHANGED <<cache, archive, entries, args, main_file, excl_files, chk,
                 strategy, build, fresh, edits>>

\* tar_files, line 683: input_files(tarball) inside the contexts.
Resolve ==
  /\ pc = "main_in"
  /\ \E b \in BuildsFor(World) :
     \E r \in {input_files(tarball, World, b)} :
          /\ build' = IF b # NoBuild THEN b ELSE build
          /\ StoreWorld(r.w)
          /\ tarball' = r.t
          /\ exc' = r.raised
          /\ strategy' = r.strategy
          /\ did' = r.ev
          /\ pc' = IF r.raised = "none" THEN "resolved" ELSE "main_out"
          /\ fresh' = IF r.strategy = "cache" /\ r.raised = "none"
                        THEN TRUE ELSE fresh
  /\ UNCHANGED <<disk, ver, archive, entries, resolution, head, main_file,
                 excl_files, gitctx, chk, exit_code, tar_file, edits>>

\* tar_files, line 688: Tarballer.print_list.
PrintList ==
  /\ pc = "resolved" /\ args.list
  /\ did' = {"print_list"}
  /\ pc' = "main_out"
  /\ UNCHANGED <<disk, ver, cache, archive, entries, resolution, head, args,
                 main_file, excl_files, gitctx, tarball, chk, exc, exit_code,
                 strategy, tar_file, build, fresh, edits>>

\* A do_tar that keeps a file it could not add in the set of files.
do_tar_keeping(t, writable) ==
  IF ~writable
    THEN [raised |-> "PermissionError", t |-> t, members |-> NoEntries]
    ELSE [raised |-> "none", t |-> t,
          members |-> [by |-> "tartex",
                       files |-> {f \in t.files : is_file(f)},
                       streams |-> t.streams,
                       file_mtime |->
                         [f \in {g \in t.files : is_file(g)} |-> st_mtime(f)],
                       stream_mtime |-> [n \in t.streams |-> t.mtime]]]

\* A do_tar that gives the Tarballer's mtime to every member.
do_tar_uniform(t, writable) ==
  IF ~writable
    THEN [raised |-> "PermissionError", t |-> t, members |-> NoEntries]
    ELSE [raised |-> "none",
          t |-> [t EXCEPT !.files = {f \in @ : is_file(f)}],
          members |-> [by |-> "tartex",
                       files |-> {f \in t.files : is_file(f)},
                       streams |-> t.streams,
                       file_mtime |->
                         [f \in {g \in t.files : is_file(g)} |-> t.mtime],
                       stream_mtime |-> [n \in t.streams |-> t.mtime]]]

\* Tarballer.do_tar: the Tarballer it leaves and the members it added to
\* the archive, each with the mtime of its tarinfo: gettarinfo's for a file,
\* the Tarballer's for a stream. tar.open of a target that cannot be written
\* raises PermissionError before anything is added; a file that is not found
\* is discarded from the set of files.
do_tar(t, writable) ==
  IF ~writable
    THEN [raised |-> "PermissionError", t |-> t, members |-> NoEntries]
    ELSE [raised |-> "none",
          t |-> [t EXCEPT !.files = {f \in @ : is_file(f)}],
          members |-> [by |-> "tartex",
                       files |-> {f \in t.files : is_file(f)},
                       streams |-> t.streams,
                       file_mtime |->
                         [f \in {g \in t.files : is_file(g)} |-> st_mtime(f)],
                       stream_mtime |-> [n \in t.streams |-> t.mtime]]]

\* Tarballer.num_objects
num_objects(t) == Cardinality(t.files) + Cardinality(t.streams)

\* tar_files, line 690: tarball.do_tar() inside the contexts.
DoTar ==
  /\ pc = "resolved" /\ ~args.list
  /\ \E writable \in BOOLEAN :
     \E r \in {do_tar(tarball, writable)} :
       /\ tarball' = r.t
       /\ exc' = r.raised
       /\ IF r.raised = "none"
            THEN /\ archive' = archive \cup {tar_file}
                 /\ entries' = [entries EXCEPT ![tar_file] = r.members]
                 /\ did' = {"do_tar"}
            ELSE /\ did' = {"do_tar_failed"}
                 /\ UNCHANGED <<archive, entries>>
  /\ pc' = "main_out"
  /\ UNCHANGED <<disk, ver, cache, resolution, head, args, main_file,
                 excl_files, gitctx, chk, exit_code, strategy, tar_file, build,
                 fresh, edits>>

\* tar_files, lines 677-699: leaving the contexts, then sys.exit(1) on an
\* exception.
ExitMain ==
  /\ pc = "main_out"
  /\ \E g \in {git_exit} :
        /\ head' = g.head /\ disk' = g.disk /\ ver' = g.ver /\ gitctx' = g.ctx
        /\ did' = IF gitctx.checked_out THEN {"restore"} ELSE {}
  /\ pc' = "exited"
  /\ exit_code' = IF exc # "none" THEN 1 ELSE 0
  /\ UNCHANGED <<cache, archive, entries, resolution, args, main_file,
                 excl_files, tarball, chk, exc, strategy, tar_file, build, fresh,
                 edits>>

\* ------------------------------------------------------------ specification
Next ==
  \/ \E n \in {MainTex, FigPng} : EditFile(n)
  \/ \E n \in {FigPng, MainBbl, MainPdf, MainFls} : ToggleFile(n)
  \/ \E h \in HeadStates : GitSwitch(h)
  \/ \E ns \in {{DefaultTarget}, Targets} : PriorArchive(ns)
  \/ \E kind \in {"corrupt", "nokeys"} : CorruptManifest(kind)
  \/ pc = "idle" /\ \E c \in CmdLines : Start(c.fname, c.a)
  \/ EnterCheck
  \/ CheckFiles
  \/ ExitCheck
  \/ BeginArchive
  \/ Resolve
  \/ PrintList
  \/ DoTar
  \/ ExitMain

Spec == Init /\ [][Next]_vars

\* ------------------------------------------ the save of the manifest, in steps
\* The manifest save_input_files_hash has built in _cache (lines 23-35) for
\* the recompile of this invocation, before it opens the manifest file.
Pending ==
  save_input_files_hash(
    tarball.files, tarball.streams,
    fls_input_files(CompileFls(build), AUXFILES, args.packages).pkgs)

\* A cache-assisted invocation at the call of save_input_files_hash: the
\* manifest is absent or did not validate, latexmk has run, and the
\* Tarballer holds the parsed inputs and the streams.
SaveInit ==
  /\ disk \in {{MainTex, RefsBib, MainFls, MainPdf} \cup D :
                 D \in SUBSET {FigPng, MainBbl}}
  /\ ver \in [{MainTex, FigPng} -> 0..MaxVer]
  /\ cache \in {NoManifest("absent"), FirstManifest, SuppManifest}
  /\ cache.kind = "absent" \/ check_file_hash(cache) = "invalid"
  /\ archive = {}
  /\ entries = [n \in Targets |-> NoEntries]
  /\ resolution = NoResolution
  /\ head = [ref |-> BranchName, commit |-> BranchTip]
  /\ pc = "save_call"
  /\ args \in {[NoArgs EXCEPT !.packages = p] : p \in BOOLEAN}
  /\ main_file = MainTex
  /\ excl_files = {}
  /\ gitctx = NewGitCtx
  /\ build \in OkBuilds
  /\ \E parsed \in {fls_input_files(CompileFls(build), AUXFILES, args.packages)} :
       tarball =
         _add_supplement_streams(
           build.tmp, parsed.deps,
           app_files(set_mtime(NewTarballer, "compile_fls"), parsed.deps))
  /\ chk = NoCheck
  /\ exc = "none"
  /\ exit_code = 0
  /\ strategy = "none"
  /\ did = {"recompile"}
  /\ tar_file = DefaultTarget
  /\ fresh = FALSE
  /\ edits = 0

\* save_input_files_hash, line 36: open(cache_file, mode="w") creates the
\* file or truncates it to no bytes.
SaveOpen ==
  /\ pc = "save_call"
  /\ cache' = NoManifest("corrupt")
  /\ pc' = "save_open"
  /\ did' = {"cache_truncated"}
  /\ UNCHANGED <<disk, ver, archive, entries, resolution, head, args, main_file,
                 excl_files, gitctx, tarball, chk, exc, exit_code, strategy,
                 tar_file, build, fresh, edits>>

\* save_input_files_hash, lines 37-43: json.dump writes the text chunk by
\* chunk; the chunks flushed so far are the beginning of a JSON object.
SaveFlush ==
  /\ pc = "save_open"
  /\ cache' = NoManifest("corrupt")
  /\ pc' = "save_dump"
  /\ did' = {"cache_partial"}
  /\ UNCHANGED <<disk, ver, archive, entries, resolution, head, args, main_file,
                 excl_files, gitctx, tarball, chk, exc, exit_code, strategy,
                 tar_file, build, fresh, edits>>

\* save_input_files_hash, line 36-43: leaving the with-block flushes the
\* rest and closes the file.
SaveClose ==
  /\ pc \in {"save_open", "save_dump"}
  /\ cache' = Pending
  /\ pc' = "save_done"
  /\ did' = {"cache_write"}
  /\ UNCHANGED <<disk, ver, archive, entries, resolution, head, args, main_file,
                 excl_files, gitctx, tarball, chk, exc, exit_code, strategy,
                 tar_file, build, fresh, edits>>

\* The process is interrupted inside the with-block (SIGINT raises
\* KeyboardInterrupt, which tar_files' `except Exception` does not catch):
\* the file keeps the bytes written so far.
SaveKill ==
  /\ pc \in {"save_open", "save_dump"}
  /\ pc' = "exited"
  /\ exc' = "KeyboardInterrupt"
  /\ exit_code' = 130
  /\ did' = {}
  /\ UNCHANGED <<disk, ver, cache, archive, entries, resolution, head, args,
                 main_file, excl_files, gitctx, tarball, chk, strategy,
                 tar_file, build, fresh, edits>>

\* Another invocation for the same document calls check_file_hash on the
\* manifest file as it is now.
PeerValidate ==
  /\ did' = {IF check_file_hash(cache) = "valid" THEN "peer_valid"
             ELSE "peer_invalid"}
  /\ UNCHANGED <<disk, ver, cache, archive, entries, resolution, head, pc, args,
                 main_file, excl_files, gitctx, tarball, chk, exc, exit_code,
                 strategy, tar_file, build, fresh, edits>>

SaveNext ==
  \/ SaveOpen
  \/ SaveFlush
  \/ SaveClose
  \/ SaveKill
  \/ PeerValidate

SaveSpec == SaveInit /\ [][SaveNext]_vars

\* ------------------------------------------------------------------ claims
\* The inputs parsed from the .fls of the latexmk run b.
ParsedDeps(b) == fls_input_files(CompileFls(b), AUXFILES, FALSE).deps

\* How a run of latexmk fails.
FailOutcomes == {"missing", "nonzero", "timeout"}

\* The files the manifest lists whose bytes differ from the recorded hash,
\* or that are gone.
Modified ==
  {p \in DOMAIN cache.input_files :
     ~is_file(p) \/ cache.input_files[p] # Sha256(read_bytes(NameOf(p)))}

\* C1: once input_files has returned, no file and no stream of the Tarballer
\* has a name that matches an exclusion pattern, except the main document.
C1_ExclusionAbsolute ==
  pc = "resolved" =>
    \A o \in objects(tarball) :
      (\E pat \in args.excl : Fnmatch(NameOf(o), pat))
        => o = Rel(WithSuffix(main_file, "tex"))

\* C2: a cache-assisted resolution that starts from a manifest a
\* cache-assisted resolution left, no listed file modified since, validates
\* the manifest, runs no latexmk and leaves the manifest as it is.
C2_CacheIdempotent ==
  [][/\ (pc = "main_in" /\ select_strategy = "cache" /\ fresh)
        => /\ pc' = "resolved"
           /\ "cache_hit" \in did'
           /\ did' \cap {"recompile", "cache_write", "latexmk_failed"} = {}
           /\ build' = build
           /\ cache' = cache
     /\ (pc = "chk_in" /\ select_strategy = "cache" /\ fresh) => cache' = cache]_vars

C2_Witness ==
  /\ pc = "resolved" /\ strategy = "cache" /\ fresh
  /\ "cache_hit" \in did
  /\ args.check /\ cache.streams # {}

\* C3: when exactly one file the manifest lists has other bytes than the
\* manifest recorded, a cache-assisted resolution that completes rewrites the
\* manifest: the hash of that file becomes the hash of its current bytes and
\* the hash of every other file listed before and after is the same.
C3_OneHashUpdated ==
  [][(/\ \/ pc = "main_in" /\ pc' = "resolved"
         \/ pc = "chk_in" /\ chk'.tgt # {}
      /\ select_strategy = "cache" /\ cache.kind = "json"
      /\ Cardinality(Modified) = 1
      /\ \A q \in Modified : is_file(q))
     => /\ "cache_write" \in did'
        /\ cache'.kind = "json"
        /\ \A q \in Modified :
             /\ q \in DOMAIN cache'.input_files
             /\ cache'.input_files[q] = Sha256(read_bytes(NameOf(q)))
             /\ cache'.input_files[q] # cache.input_files[q]
        /\ \A p \in (DOMAIN cache.input_files \cap DOMAIN cache'.input_files)
                      \ Modified :
             cache'.input_files[p] = cache.input_files[p]]_vars

C3_Witness ==
  /\ pc = "resolved" /\ strategy = "cache"
  /\ {"cache_read", "cache_write"} \subseteq did
  /\ ver[MainTex] = 1
  /\ cache.input_files[Rel(MainTex)] = Sha256(read_bytes(MainTex))
  /\ cache.input_files[Rel(FigPng)] = FirstManifest.input_files[Rel(FigPng)]

\* C4: leaving a git_checkout context that had checked out the revision puts
\* HEAD back where it was on entry, the branch by name or the detached commit
\* by its hash, and the tracked files with it, whether or not the block raised.
C4_CheckoutRestored ==
  [][(gitctx.state = "active" /\ gitctx.checked_out /\ gitctx'.state = "done")
       => /\ head' = gitctx.entry_head
          /\ disk' = CheckoutDisk(gitctx.entry_head.commit)]_vars

C4_Witness ==
  /\ pc = "exited" /\ exc # "none"
  /\ gitctx.checked_out /\ gitctx.state = "done"
  /\ gitctx.entry_head = [ref |-> "HEAD", commit |-> "c1"]
  /\ head = gitctx.entry_head

\* C5: a run of latexmk that fails leaves an exception in the with-block, the
\* invocation then ends with exit code 1 without reaching do_tar, and the set
\* of archive files is what it was.
C5_LatexmkFailureFatal ==
  [][/\ (pc \in {"chk_in", "main_in"} /\ build'.outcome \in FailOutcomes)
        => (exc' # "none" /\ pc' \in {"chk_out", "main_out"} /\ archive' = archive)
     /\ (pc \in {"chk_out", "main_out"} /\ exc # "none")
        => (pc' = "exited" /\ exit_code' = 1 /\ archive' = archive)
     /\ pc = "exited" => (pc' = "exited" /\ archive' = archive)]_vars

C5_Witness ==
  /\ pc = "exited" /\ exit_code = 1
  /\ build.outcome = "timeout" /\ exc = "LatexmkError"
  /\ tar_file \notin archive

\* C6: after a recompile, main.bbl (main.ind) is a stream exactly when it is
\* not among the inputs parsed from the .fls, it is in the compile directory
\* and no exclusion pattern matches its name.
C6_SuppStreamIff ==
  (pc = "resolved" /\ "recompile" \in did) =>
    \A e \in SUPP_REQ :
      WithSuffix(main_file, e) \in tarball.streams
        <=> /\ Rel(WithSuffix(main_file, e)) \notin ParsedDeps(build)
            /\ WithSuffix(main_file, e) \in build.tmp
            /\ ~\E pat \in args.excl : Fnmatch(WithSuffix(main_file, e), pat)

\* C7: the strategy a resolution ran is the first that applies of: git when a
\* revision is given, the source .fls when the main file is a .fls and no
\* recompile is forced, the forced recompile, the cache; and what the
\* resolution did is what that strategy alone does.
C7_StrategyPrecedence ==
  /\ strategy # "none"
       => strategy = IF args.git_rev # "" THEN "git"
                     ELSE IF main_file.ext = "fls" /\ ~args.force_recompile
                       THEN "srcfls"
                     ELSE IF args.force_recompile THEN "forced"
                     ELSE "cache"
  /\ pc = "resolved"
       => /\ "ls_tree" \in did <=> strategy = "git"
          /\ "srcfls_read" \in did <=> strategy = "srcfls"
          /\ "recompile" \in did => strategy \in {"forced", "cache"}
          /\ strategy = "forced" => "recompile" \in did
          /\ did \cap {"cache_read", "cache_hit", "cache_write"} # {}
               => strategy = "cache"
          /\ strategy = "cache" => did \cap {"cache_hit", "cache_write"} # {}

C7_Witness ==
  /\ pc = "resolved" /\ strategy = "forced"
  /\ main_file.ext = "fls" /\ args.force_recompile

\* C8: a resolution from git or from the source .fls runs no latexmk, neither
\* reads nor writes the manifest, and leaves the manifest file as it was.
C8_NoCacheNoRecompile ==
  [][/\ (pc = "main_in" /\ select_strategy \in {"git", "srcfls"})
        => /\ cache' = cache
           /\ build' = build
           /\ did' \cap {"recompile", "latexmk_failed", "cache_read",
                         "cache_hit", "cache_write"} = {}
     /\ (pc = "chk_in" /\ select_strategy \in {"git", "srcfls"})
        => (cache' = cache /\ did' \cap {"cache_read", "cache_hit", "cache_write"} = {})]_vars

C8_Witness ==
  /\ pc = "resolved" /\ strategy \in {"git", "srcfls"}
  /\ cache = FirstManifest /\ Modified # {}

\* C9: with --force-recompile no step of the invocation reads or writes the
\* manifest: the manifest file is what it was before.
C9_ForceLeavesCache ==
  [][args.force_recompile
       => /\ cache' = cache
          /\ did' \cap {"cache_read", "cache_hit", "cache_write"} = {}]_vars

C9_Witness ==
  /\ pc = "exited" /\ exit_code = 0 /\ tar_file \in archive
  /\ args.force_recompile /\ strategy = "forced" /\ build.outcome = "ok"
  /\ cache = FirstManifest

\* C10, as stated: every latexmk run of a resolution that succeeds, a forced
\* one included, is followed by a write of the manifest.
C10_EveryRecompileSaves ==
  [][(pc = "main_in" /\ "recompile" \in did')
       => ("cache_write" \in did' /\ cache'.kind = "json")]_vars

\* C10, amended: the recompile a cache-assisted resolution falls back to
\* overwrites the manifest with the hashes of the inputs just parsed and the
\* streams just added; a forced recompile leaves the manifest as it was.
C10_FallbackRecompileSaves ==
  [][/\ (pc = "main_in" /\ select_strategy = "cache" /\ "recompile" \in did')
        => /\ "cache_write" \in did'
           /\ cache'.kind = "json"
           /\ DOMAIN cache'.input_files = {f \in ParsedDeps(build') : is_file(f)}
           /\ \A p \in DOMAIN cache'.input_files :
                cache'.input_files[p] = Sha256(read_bytes(NameOf(p)))
           /\ cache'.streams = tarball'.streams \ {pkglist_name}
     /\ (pc \in {"chk_in", "main_in"} /\ select_strategy = "forced")
        => cache' = cache]_vars

C10_Witness ==
  /\ pc = "resolved" /\ strategy = "cache"
  /\ {"recompile", "cache_write"} \subseteq did
  /\ cache.streams = {MainBbl}
  /\ DOMAIN cache.input_files = {Rel(MainTex), Rel(FigPng)}

\* The files the manifest lists whose bytes differ from the recorded hash.
Stale ==
  {p \in DOMAIN cache.input_files :
     is_file(p) /\ cache.input_files[p] # Sha256(read_bytes(NameOf(p)))}

\* The files the manifest lists that are gone.
Missing == {p \in DOMAIN cache.input_files : ~is_file(p)}

\* The manifest records a .bbl / .ind among its streams.
PendingSupp == \E n \in cache.streams : n.ext \in SUPP_REQ

\* The resolution ran latexmk and, where latexmk succeeded, wrote a manifest
\* that validates.
FellBack ==
  /\ "cache_hit" \notin did'
  /\ \/ /\ pc' = "main_out" /\ "latexmk_failed" \in did'
           /\ build'.outcome \in FailOutcomes /\ cache' = cache
        \/ /\ pc' = "resolved" /\ {"recompile", "cache_write"} \subseteq did'
           /\ build'.outcome = "ok"
           /\ cache'.kind = "json"
           /\ \A p \in DOMAIN cache'.input_files :
                is_file(p) /\ cache'.input_files[p] = Sha256(read_bytes(NameOf(p)))

\* C11, as stated: a cache-assisted resolution falls back to a recompile
\* when the manifest is absent, lists a file whose hash is stale, lists a
\* file that is missing, or records a .bbl / .ind among its streams.
C11_SuppSignalInvalidates ==
  [][(/\ pc = "main_in" /\ select_strategy = "cache"
      /\ \/ cache.kind = "absent"
         \/ cache.kind = "json" /\ (Stale # {} \/ Missing # {} \/ PendingSupp))
     => FellBack]_vars

\* C11, amended: a cache-assisted resolution falls back to a recompile and
\* rewrites the manifest when the manifest is absent, lists a file whose
\* hash is stale or lists a file that is missing; a manifest whose listed
\* files all match is used as it is, without a recompile, even when it
\* records a .bbl / .ind among its streams.
C11_InvalidFallsBack ==
  [][/\ (/\ pc = "main_in" /\ select_strategy = "cache"
         /\ \/ cache.kind = "absent"
            \/ cache.kind = "json" /\ (Stale # {} \/ Missing # {}))
        => FellBack
     /\ (/\ pc = "main_in" /\ select_strategy = "cache"
         /\ cache.kind = "json" /\ Stale = {} /\ Missing = {} /\ PendingSupp)
        => /\ pc' = "resolved" /\ "cache_hit" \in did'
           /\ "recompile" \notin did'
           /\ build' = build /\ cache' = cache]_vars

C11_Witness ==
  /\ pc = "resolved" /\ strategy = "cache"
  /\ {"cache_read", "recompile", "cache_write"} \subseteq did
  /\ FigPng \notin disk
  /\ DOMAIN cache.input_files = {Rel(MainTex)}

\* C12: whatever the manifest file holds (bytes that are not JSON, or JSON
\* without the keys of a manifest), check_file_hash returns without raising
\* and a cache-assisted resolution falls back to a recompile: it ends with
\* an error only where latexmk fails.
C12_CacheNeverFatal ==
  [][(/\ pc = "main_in" /\ select_strategy = "cache"
      /\ cache.kind \in {"corrupt", "nokeys"})
     => /\ check_file_hash(cache) = "invalid"
        /\ exc' \in {"none", "LatexmkError"}
        /\ FellBack]_vars

\* The arguments save_input_files_hash is tried with: files that exist or
\* not, edited or not, named relatively or absolutely; stream names; package
\* lists.
RoundTripFiles == {Rel(MainTex), Rel(FigPng), Rel(MainBbl), SrcAbs(MainTex)}

RoundTripStreams == {MainBbl}

RoundTripPkgs == {EmptyPkgs, [System |-> {"amsmath"}, Local |-> {}]}

\* C13: in every state the project directory is left in, by the user's
\* edits or by the checkout of an invocation, for every set of files, stream
\* names and package list, the manifest save_input_files_hash writes is one
\* check_file_hash finds valid; and so is the manifest a resolution has just
\* written.
C13_RoundTrip ==
  /\ (pc = "idle" \/ (pc \in {"chk_in", "main_in"} /\ gitctx.checked_out))
       => \A F \in SUBSET RoundTripFiles, S \in SUBSET RoundTripStreams,
             pk \in RoundTripPkgs :
            check_file_hash(save_input_files_hash(F, S, pk)) = "valid"
  /\ "cache_write" \in did => check_file_hash(cache) = "valid"

C13_Witness ==
  /\ "cache_write" \in did /\ check_file_hash(cache) = "valid"
  /\ ver[MainTex] = 1 /\ cache.streams = {MainBbl, MainPdf}
  /\ check_file_hash(
       save_input_files_hash({Rel(MainTex), Rel(MainBbl)}, {MainBbl}, EmptyPkgs))
       = "valid"
  /\ MainBbl \notin disk

\* The revisions git_checkout is tried with.
Revs == {"c1", "c2", "HEAD", "main", "bad"}

\* C14: git_checkout raises, and leaves HEAD and the working tree as they
\* are without having checked anything out, when a tracked file has
\* uncommitted changes or the revision cannot be resolved; the invocation
\* that meets either ends with exit code 1, the repository untouched.
C14_CheckoutRefuses ==
  [][/\ \A rev \in Revs :
          (/\ gitctx = NewGitCtx /\ pc \in {"idle", "init", "post_check"}
           /\ Unclean \/ rev_parse(rev) = "CalledProcessError")
            => /\ git_checkout(rev).raised # "none"
               /\ git_checkout(rev).head = head
               /\ git_checkout(rev).disk = disk
               /\ git_checkout(rev).ver = ver
               /\ ~git_checkout(rev).ctx.checked_out
     /\ (/\ pc \in {"init", "post_check"} /\ pc' # pc
         /\ args.git_rev # "" /\ gitctx.state = "new"
         /\ Unclean \/ rev_parse(args.git_rev) = "CalledProcessError")
        => /\ pc' = "exited" /\ exit_code' = 1
           /\ head' = head /\ disk' = disk /\ ver' = ver
           /\ "checkout" \notin did' /\ ~gitctx'.checked_out
     /\ (pc = "idle" /\ pc' # "idle" /\ args'.git_rev # ""
         /\ rev_parse(args'.git_rev) = "CalledProcessError")
        => /\ pc' = "exited" /\ exit_code' = 1
           /\ head' = head /\ disk' = disk /\ ver' = ver]_vars

C14_Witness ==
  /\ pc = "exited" /\ exit_code = 1 /\ exc = "RuntimeError"
  /\ args.git_rev = "c1" /\ head.commit = "c2"
  /\ Unclean /\ ver[MainTex] = 1
  /\ ~gitctx.checked_out

\* check_files compared a reference set with a target set: neither
\* resolution raised.
Compared ==
  /\ pc = "chk_out" /\ chk.ref # {}
  /\ exc \in {"none", "CheckFailError"}

\* The .bbl / .ind of the main document.
SuppOfMain == {Rel(WithSuffix(main_file, e)) : e \in SUPP_REQ}

\* The reference entries check_files does not hold against the target: the
\* main document's .bbl / .ind when --force-recompile was given.
Exempt == IF args.force_recompile THEN SuppOfMain ELSE {}

C17_SuppWarnsUnlessForced ==
  (Compared /\ ~args.force_recompile) =>
    /\ (\E f \in chk.ref \ SuppOfMain : ~is_file(f)) => chk.err
    /\ (/\ chk.ref \subseteq chk.tgt
        /\ \A f \in chk.ref \ SuppOfMain : is_file(f)) => ~chk.err

\* C18: a step of an invocation creates or changes an archive file only if
\* it is do_tar, neither --list nor --only-check was given, and the check,
\* if one was asked for, compared the two sets and passed; in list mode, in
\* only-check mode and after a check that failed (a failed reference
\* recompile included) every archive file stays as it was.
C18_ArchiveOnlyAfterPass ==
  [][/\ (pc # "idle" /\ (archive' # archive \/ entries' # entries))
        => /\ pc = "resolved" /\ "do_tar" \in did'
           /\ ~args.list /\ ~args.only_check
           /\ args.check => (chk.ref # {} /\ ~chk.err)
     /\ (/\ pc # "idle"
         /\ \/ args.list
            \/ args.only_check
            \/ args.check /\ pc \notin {"init", "chk_in"} /\ chk.err)
        => (archive' = archive /\ entries' = entries)]_vars

C18_Witness ==
  /\ pc = "exited" /\ exit_code = 1
  /\ args.check /\ chk.err /\ chk.ref = {}
  /\ build.outcome \in FailOutcomes
  /\ archive = {DefaultTarget} /\ entries[DefaultTarget] = PriorEntries

\* The answer recorded in r makes tar_name_conflict quit: empty, "q", an
\* invalid key, or "c" with the old name or the name of an existing file.
Refused(r) ==
  /\ ~r.overwrite
  /\ \/ r.key \in {"", "q", "x"}
     \/ r.key = "c" /\ (r.name = tar_file \/ r.name \in archive)

\* C19: an archive file that exists is changed by an invocation only at its
\* target path and only when --overwrite was given (no prompt is shown then)
\* or the user answered "o"; an empty, "q" or invalid answer, and a new name
\* equal to the old one or to an existing file, end the invocation with exit
\* code 1 and every archive file as it was; a valid new name becomes the
\* target, which do_tar then writes, the original staying as it was.
C19_OverwriteOnlyOnConsent ==
  [][/\ (pc # "idle" /\ \E n \in archive : entries'[n] # entries[n])
        => /\ entries'[tar_file] # entries[tar_file]
           /\ \A n \in archive \ {tar_file} : entries'[n] = entries[n]
           /\ resolution.conflict
           /\ resolution.overwrite \/ resolution.key = "o"
     /\ (/\ Conflict /\ pc' # pc
         /\ pc = "post_check" \/ (pc = "init" /\ ~args.check /\ ~args.only_check))
        => /\ resolution'.conflict
           /\ resolution'.overwrite => resolution'.key = "none"
           /\ Refused(resolution')
                => /\ pc' = "exited" /\ exit_code' = 1
                   /\ archive' = archive /\ entries' = entries
           /\ (resolution'.overwrite \/ resolution'.key = "o")
                => (tar_file' = tar_file /\ "conflict_quit" \notin did')
           /\ (resolution'.key = "c" /\ ~Refused(resolution'))
                => /\ tar_file' = resolution'.name
                   /\ tar_file' \notin archive
                   /\ "conflict_quit" \notin did'
     /\ (pc = "resolved" /\ "do_tar" \in did')
        => /\ archive' = archive \cup {tar_file}
           /\ entries'[tar_file].by = "tartex"
           /\ resolution.key = "c"
                => entries'[DefaultTarget] = entries[DefaultTarget]]_vars

C19_Witness ==
  /\ pc = "exited" /\ exit_code = 0
  /\ resolution.conflict /\ resolution.key = "c"
  /\ tar_file = OtherTarget
  /\ archive = {DefaultTarget, OtherTarget}
  /\ entries[DefaultTarget] = PriorEntries
  /\ entries[OtherTarget].by = "tartex"

\* C20: do_tar does not raise for a listed file that is gone: it raises only
\* when the target cannot be written. It adds every listed file that exists
\* and every stream, nothing else, and num_objects afterwards is the number
\* of members it added.
C20_CountIsWritten ==
  [][/\ (pc = "resolved" /\ ~args.list /\ pc' # pc)
        => /\ pc' = "main_out"
           /\ \/ "do_tar" \in did' /\ exc' = "none"
              \/ "do_tar_failed" \in did' /\ exc' = "PermissionError"
                   /\ entries' = entries
     /\ (pc = "resolved" /\ "do_tar" \in did')
        => /\ entries'[tar_file].files = {f \in tarball.files : is_file(f)}
           /\ entries'[tar_file].streams = tarball.streams
           /\ num_objects(tarball')
                = Cardinality(entries'[tar_file].files)
                    + Cardinality(entries'[tar_file].streams)]_vars

C20_Witness ==
  /\ pc = "main_out" /\ "do_tar" \in did /\ exc = "none"
  /\ strategy = "srcfls" /\ MainBbl \notin disk /\ args.packages
  /\ entries[tar_file].files = {Rel(MainTex), Rel(FigPng)}
  /\ entries[tar_file].streams = {pkglist_name}
  /\ num_objects(tarball) = 3

\* The build logs fls_input_files is tried with: any set of these lines, a
\* consumed (INPUT) or produced (OUTPUT) file named relatively or
\* absolutely, with or without an auxiliary suffix.
LogPaths ==
  {Rel(MainTex), Rel(N("main", "aux")), P("tmp", N("main", "aux")),
   P("amsmath", N("amsmath", "sty"))}

LogLines == {Line(tag, p) : tag \in {"INPUT", "OUTPUT"}, p \in LogPaths}

\* The denylists it is tried with.
Denylists == {{}, {"aux"}, {"tex", "sty"}, AUXFILES}

\* C21: for every build log and denylist, no path fls_input_files returns
\* as a project input has a suffix of the denylist, none is absolute, and
\* each is the path of an INPUT line of the log; so the inputs a resolution
\* parsed from a .fls are relative and carry no auxiliary suffix.
C21_ParseFilters ==
  /\ (pc = "idle" /\ edits = 0)
       => \A log \in SUBSET LogLines, deny \in Denylists, sty \in BOOLEAN :
            \A p \in fls_input_files(log, deny, sty).deps :
              /\ p.ext \notin deny
              /\ ~IsAbsolute(p)
              /\ Line("INPUT", p) \in log
  /\ (pc = "resolved" /\ strategy = "srcfls" /\ MainFls \in disk)
       => \A p \in fls_input_files(SrcFlsLines, AUXFILES, args.packages).deps :
            /\ p.ext \notin AUXFILES /\ ~IsAbsolute(p)
            /\ Line("INPUT", p) \in SrcFlsLines
            /\ p \in tarball.files \/ p \in excl_files
  /\ (pc = "resolved" /\ "recompile" \in did)
       => \A p \in ParsedDeps(build) :
            /\ p.ext \notin AUXFILES /\ ~IsAbsolute(p)
            /\ Line("INPUT", p) \in CompileFls(build)

C21_Witness ==
  /\ pc = "resolved" /\ strategy = "srcfls" /\ MainFls \in disk
  /\ Line("INPUT", Rel(N("main", "aux"))) \in SrcFlsLines
  /\ Line("INPUT", P("amsmath", N("amsmath", "sty"))) \in SrcFlsLines
  /\ Rel(N("main", "aux")) \notin tarball.files
  /\ tarball.files = {Rel(MainTex), Rel(FigPng), Rel(MainBbl)}

PlainReference(b) ==
  ParsedDeps(b)
    \cup {Rel(n) : n \in {m \in {WithSuffix(main_file, e) : e \in SUPP_REQ} :
                           SrcAbs(m) \notin ParsedDeps(b) /\ m \in b.tmp}}

\* C23: the reference set check_files computes is the same whatever the
\* inclusion patterns, exclusion patterns, bibliography flag and final-output
\* flag: it is the reference set of the invocation that has none of them.
C23_ReferenceIgnoresOptions ==
  Compared => chk.ref = PlainReference(build)

\* Lines of a document bib_file is tried with.
MaxLines == 3

DocLines ==
  {TexLine("none", ""), TexLine("bibliography", "refs"),
   TexLine("bibliography", "other"), TexLine("bibliographystyle", "plain"),
   TexLine("bibliographystyle", "alpha")}

Docs == UNION {[1..n -> DocLines] : n \in 0..MaxLines}

\* The argument of the first line of the document that begins with macro.
FirstMatch(lines, macro) ==
  LET at == {i \in 1..Len(lines) : lines[i].macro = macro}
  IN IF at = {} THEN None
     ELSE lines[CHOOSE i \in at : \A j \in at : i <= j].arg

\* C24: for every document, the match bib_file ends with for each of the
\* two macros is the first line that begins with it: a later line with the
\* same macro does not replace it.
C24_FirstMatchWins ==
  (pc = "idle" /\ edits = 0)
    => \A lines \in Docs :
         /\ bib_scan(lines, 1, None, None).bib = FirstMatch(lines, "bibliography")
         /\ bib_scan(lines, 1, None, None).bst
              = FirstMatch(lines, "bibliographystyle")

\* C25: every step of a save, an interrupted one included, leaves the
\* manifest file as it was or holding the complete new manifest; the file
\* never holds bytes that are not a manifest, so a validate of another
\* invocation reads the previous manifest or the new one.
C25_AtomicOverwrite ==
  [][/\ cache' = cache \/ (cache' = Pending /\ cache'.kind = "json")
     /\ cache'.kind # "corrupt"]_vars

\* C26: in every resolution the names of the streams are disjoint from the
\* paths of the files, and do_tar writes no member name twice.
C26_NoDuplicateNames ==
  [][/\ pc' = "resolved"
          => \A n \in tarball'.streams : Rel(n) \notin tarball'.files
     /\ (pc = "resolved" /\ "do_tar" \in did')
          => \A n \in entries'[tar_file].streams :
               Rel(n) \notin entries'[tar_file].files]_vars

\* The member names of an archive file: its files and Path(name) of every
\* stream.
Members(e) == e.files \cup {Rel(n) : n \in e.streams}

\* C27: when an invocation with --check writes the archive, the members it
\* writes are the target set its check examined.
C27_CheckedIsArchived ==
  [][(pc = "resolved" /\ "do_tar" \in did' /\ args.check)
       => Members(entries'[tar_file]) = chk.tgt]_vars

\* What the recompile that wrote the manifest resolved: the files it hashed
\* and the streams it recorded.
RecordedEntries ==
  DOMAIN cache.input_files \cup {Rel(n) : n \in cache.streams}

\* C28: a resolution that takes the cache-hit branch, with the options of
\* the invocation that wrote the manifest (no patterns, no --bib, no package
\* list, --with-pdf exactly if that invocation recorded main.pdf), ends with
\* the files and streams the recompile of that invocation ended with.
C28_HitEqualsRecompile ==
  [][(/\ pc = "main_in" /\ "cache_hit" \in did'
      /\ args.excl = {} /\ args.add = {} /\ ~args.bib /\ ~args.packages
      /\ args.with_pdf <=> MainPdf \in cache.streams)
     => objects(tarball') = RecordedEntries]_vars

\* The package list a recompile with --packages makes for the latexmk run b.
RecompiledPkgs(b) == fls_input_files(CompileFls(b), AUXFILES, TRUE).pkgs

\* C29: the package list a cache hit with --packages puts into the archive
\* is the one a recompile of the project with --packages makes, whichever
\* invocation wrote the manifest.
C29_HitPkgsEqualRecompile ==
  [][(pc = "main_in" /\ "cache_hit" \in did' /\ args.packages)
       => /\ pkglist_name \in tarball'.streams
          /\ \A b \in OkBuilds : tarball'.bytes[pkglist_name] = RecompiledPkgs(b)]_vars

\* C30: with --check and without --only-check, once check_files has passed
\* and the contexts were left, tar_files enters both contexts again and goes
\* on to input_files, with a revision or without one; it stops before that
\* only when the user quits at the name-conflict prompt.
C30_PassedCheckGoesOnToArchive ==
  [][(pc = "post_check" /\ pc' # pc /\ "conflict_quit" \notin did')
       => pc' = "main_in" /\ exc' = "none"]_vars

====
